---- MODULE Spec2Model ----
(***************************************************************************)
(* Activation / deactivation protocol of two interceptors:                 *)
(*   AndroidAdbInterceptor  (src/src/interceptors/android/                 *)
(*                           android-adb-interceptor.ts)                   *)
(*   ElectronInterceptor    (src/unnamed/part_000)                         *)
(*                                                                         *)
(* Both run on a single-threaded event loop.  Every action below is one    *)
(* task turn: the completion of one awaited collaborator call (with its    *)
(* outcome chosen nondeterministically, the collaborators being opaque),   *)
(* followed by all the synchronous code up to the next await.              *)
(*                                                                         *)
(* The two classes share no state.  A behaviour follows one interceptor    *)
(* instance; which one is fixed by its readonly `id` field.                *)
(*                                                                         *)
(* Environment: activate() may be called at any time, concurrently with    *)
(* earlier calls; deactivate()/deactivateAll() calls are issued one after  *)
(* the other (a new one once every task of the previous one has ended).    *)
(* Variables a piece of code never reads again (loop counters after the    *)
(* loop, locals of a returned function, closures that can never run) are   *)
(* reset, so that states differing only in dead data coincide.             *)
(*                                                                         *)
(* The two pure computations of the device flow's payload, the candidate   *)
(* address list and urlSafeBase64(), are also studied on their own, over   *)
(* every input of the bounds (AddressesSpec, EncodingSpec).                *)
(***************************************************************************)
EXTENDS Integers, Sequences, FiniteSets, TLC

VARIABLES
    id,                 \* readonly id of the interceptor instance under study
    deviceProxyMapping, \* AndroidAdbInterceptor.deviceProxyMapping
    adbActivate,        \* the activate() calls of the device flow
    tunnelChecks,       \* the setInterval closures created by activate()
    registration,       \* which closure belongs to the current entry of a pair
    adbDeactivate,      \* the latest deactivate()/deactivateAll() call, device flow
    debugClients,       \* ElectronInterceptor.debugClients
    clients,            \* the CDP clients: channel state and 'disconnect' handler
    electronActivate,   \* the activate() calls of the process flow
    electronDeactivate, \* the latest deactivate()/deactivateAll() call, process flow;
                        \* .disconnected: handles whose channel closed while the
                        \* shutdown request of this call was awaiting its reply
    networkInterfaces,  \* the value of os.networkInterfaces()
    setupParams,        \* setupParams.addresses of activate(), once computed
    content,            \* the argument of urlSafeBase64()
    intentData          \* the value urlSafeBase64() returns, once computed

adbVars == <<deviceProxyMapping, adbActivate, tunnelChecks, registration, adbDeactivate>>

electronVars == <<debugClients, clients, electronActivate, electronDeactivate>>

payloadVars == <<networkInterfaces, setupParams, content, intentData>>

vars == <<id, adbVars, electronVars, payloadVars>>

----------------------------------------------------------------------------
(* Bounds of the model *)

\* number of activate() calls of the device flow in one behaviour
MaxActivations == 2
\* number of activate() calls of the process flow in one behaviour
MaxLaunches == 1
\* reverse() calls of one health-check timer that may be pending at once
MaxInFlight == 2
\* interfaces of one os.networkInterfaces() value
MaxInterfaces == 2
\* address entries of one interface
MaxAddresses == 1
\* UTF-16 code units of one urlSafeBase64() argument
MaxContentLength == 6

(* Inputs *)
Ports == {8000}
Devices == {"emulator-5554"}

Calls == 1..MaxActivations
Launches == 1..MaxLaunches

(* Program constants *)
\* `if (tunnelConnectFailures >= 5)`
TunnelFailureLimit == 5
\* `let retries = 10`
InitialRetries == 10

----------------------------------------------------------------------------
(* Array helpers *)

\* Array.prototype.includes
Includes(arr, x) == \E i \in 1..Len(arr) : arr[i] = x

\* Array.prototype.filter(e => e !== x)
RECURSIVE Without(_, _)
Without(arr, x) ==
    IF arr = <<>> THEN <<>>
    ELSE IF Head(arr) = x THEN Without(Tail(arr), x)
         ELSE <<Head(arr)>> \o Without(Tail(arr), x)

\* number of elements of arr equal to x
RECURSIVE Occurrences(_, _)
Occurrences(arr, x) ==
    IF arr = <<>> THEN 0
    ELSE (IF Head(arr) = x THEN 1 ELSE 0) + Occurrences(Tail(arr), x)

\* `this.deviceProxyMapping[port] || []`
DeviceIds(port) ==
    IF port \in DOMAIN deviceProxyMapping THEN deviceProxyMapping[port] ELSE <<>>

\* (P,T) is in the session table
Tracked(port, deviceId) == Includes(DeviceIds(port), deviceId)

----------------------------------------------------------------------------
(* Device flow: AndroidAdbInterceptor *)

\* isActive(): the method ignores its argument
AdbIsActive(proxyPort) == FALSE

IdleActivate ==
    [pc |-> "idle", proxyPort |-> 0, deviceId |-> "", certInstalled |-> "unknown",
     installTry |-> 0]

IdleTunnelCheck ==
    [proxyPort |-> 0, deviceId |-> "", tunnelConnectFailures |-> 0,
     scheduled |-> FALSE, pending |-> 0]

NoSubs == [k \in Ports \X Devices |-> "none"]

IdleDeactivate ==
    [status |-> "idle", all |-> FALSE, port |-> 0, subs |-> NoSubs]

AdbGoto(s, pc) == adbActivate' = [adbActivate EXCEPT ![s].pc = pc]

\* activate() is called: the code up to the first await, which is
\* getRootCommand() inside injectSystemCertIfPossible()
AdbActivateStart(s, proxyPort, deviceId) ==
    /\ id = "android-adb"
    /\ adbActivate[s].pc = "idle"
    /\ \A r \in Calls : r < s => adbActivate[r].pc # "idle"
    /\ adbActivate' = [adbActivate EXCEPT ![s] =
            [IdleActivate EXCEPT !.pc = "getRootCommand",
                                 !.proxyPort = proxyPort,
                                 !.deviceId = deviceId]]
    /\ UNCHANGED <<id, payloadVars, electronVars, deviceProxyMapping, tunnelChecks,
                   registration, adbDeactivate>>

\* getRootCommand() settles; then parseCert() and the start of the try block
GetRootCommandSettles(s) ==
    /\ adbActivate[s].pc = "getRootCommand"
    /\ \E rootCmd \in {"su", "undefined", "throws"}, certParses \in BOOLEAN :
          adbActivate' = [adbActivate EXCEPT ![s].pc =
              CASE rootCmd = "throws" -> "rejected"
                [] rootCmd = "undefined" -> "isInstalled"
                [] rootCmd = "su" /\ ~certParses -> "rejected"
                [] OTHER -> "hasCertInstalled"]
    /\ UNCHANGED <<id, payloadVars, electronVars, deviceProxyMapping, tunnelChecks,
                   registration, adbDeactivate>>

\* variant: the certificate is pushed whatever hasCertInstalled() reports
PushNeeded_Always(outcome) == outcome \in {"yes", "no"}

\* `if (!await hasCertInstalled(...))`: push when the outcome is "no"
PushNeeded(outcome) == outcome = "no"

\* hasCertInstalled() settles
HasCertInstalledSettles(s) ==
    /\ adbActivate[s].pc = "hasCertInstalled"
    /\ \E outcome \in {"yes", "no", "throws"} :
          adbActivate' = [adbActivate EXCEPT ![s] =
              IF outcome = "throws"
              THEN [@ EXCEPT !.pc = "isInstalled"]
              ELSE [@ EXCEPT !.certInstalled = outcome,
                             !.pc = IF PushNeeded(outcome) THEN "pushFile"
                                    ELSE "setChromeFlags"]]
    /\ UNCHANGED <<id, payloadVars, electronVars, deviceProxyMapping, tunnelChecks,
                   registration, adbDeactivate>>

\* pushFile() settles: a failure is caught by the enclosing try
PushFileSettles(s) ==
    /\ adbActivate[s].pc = "pushFile"
    /\ \E ok \in BOOLEAN :
          adbActivate' = [adbActivate EXCEPT ![s] =
              IF ok THEN [@ EXCEPT !.pc = "injectSystemCertificate"]
              ELSE [@ EXCEPT !.pc = "isInstalled", !.certInstalled = "unknown"]]
    /\ UNCHANGED <<id, payloadVars, electronVars, deviceProxyMapping, tunnelChecks,
                   registration, adbDeactivate>>

\* injectSystemCertificate() settles: .catch(logError), so either way on
InjectSystemCertificateSettles(s) ==
    /\ adbActivate[s].pc = "injectSystemCertificate"
    /\ AdbGoto(s, "setChromeFlags")
    /\ UNCHANGED <<id, payloadVars, electronVars, deviceProxyMapping, tunnelChecks,
                   registration, adbDeactivate>>

\* setChromeFlags() settles: injectSystemCertIfPossible returns, its locals
\* go out of scope, and activate() calls isInstalled()
SetChromeFlagsSettles(s) ==
    /\ adbActivate[s].pc = "setChromeFlags"
    /\ adbActivate' = [adbActivate EXCEPT ![s].pc = "isInstalled",
                                          ![s].certInstalled = "unknown"]
    /\ UNCHANGED <<id, payloadVars, electronVars, deviceProxyMapping, tunnelChecks,
                   registration, adbDeactivate>>

\* isInstalled() settles
IsInstalledSettles(s) ==
    /\ adbActivate[s].pc = "isInstalled"
    /\ \E outcome \in {"yes", "no", "throws"} :
          adbActivate' = [adbActivate EXCEPT ![s] =
              CASE outcome = "throws" -> [@ EXCEPT !.pc = "rejected"]
                [] outcome = "yes" -> [@ EXCEPT !.pc = "bringToFront"]
                [] OTHER -> [@ EXCEPT !.pc = "streamLatestApk", !.installTry = 1]]
    /\ UNCHANGED <<id, payloadVars, electronVars, deviceProxyMapping, tunnelChecks,
                   registration, adbDeactivate>>

\* variant: every failure is caught and followed by a reset and a retry
InstallFailed_AlwaysCaught(installTry) ==
    IF installTry >= 1 THEN "clearAllApks" ELSE "rejected"

\* what follows a failure of streamLatestApk() or install(): the first try is
\* inside try/catch, the second is not
InstallFailed(installTry) == IF installTry = 1 THEN "clearAllApks" ELSE "rejected"

\* streamLatestApk() settles
StreamLatestApkSettles(s) ==
    /\ adbActivate[s].pc = "streamLatestApk"
    /\ \E ok \in BOOLEAN :
          AdbGoto(s, IF ok THEN "install" ELSE InstallFailed(adbActivate[s].installTry))
    /\ UNCHANGED <<id, payloadVars, electronVars, deviceProxyMapping, tunnelChecks,
                   registration, adbDeactivate>>

\* deviceClient.install() settles
InstallSettles(s) ==
    /\ adbActivate[s].pc = "install"
    /\ \E ok \in BOOLEAN :
          AdbGoto(s, IF ok THEN "delay" ELSE InstallFailed(adbActivate[s].installTry))
    /\ UNCHANGED <<id, payloadVars, electronVars, deviceProxyMapping, tunnelChecks,
                   registration, adbDeactivate>>

\* clearAllApks() settles (inside the catch block, so a failure rejects)
ClearAllApksSettles(s) ==
    /\ adbActivate[s].pc = "clearAllApks"
    /\ \E ok \in BOOLEAN :
          adbActivate' = [adbActivate EXCEPT ![s] =
              IF ok THEN [@ EXCEPT !.pc = "streamLatestApk", !.installTry = 2]
              ELSE [@ EXCEPT !.pc = "rejected"]]
    /\ UNCHANGED <<id, payloadVars, electronVars, deviceProxyMapping, tunnelChecks,
                   registration, adbDeactivate>>

\* delay(200) elapses
DelaySettles(s) ==
    /\ adbActivate[s].pc = "delay"
    /\ adbActivate' = [adbActivate EXCEPT ![s].pc = "bringToFront",
                                          ![s].installTry = 0]
    /\ UNCHANGED <<id, payloadVars, electronVars, deviceProxyMapping, tunnelChecks,
                   registration, adbDeactivate>>

\* variant: the first reverse() call is left out
BringToFrontSettles_NoReverse(s) ==
    /\ adbActivate[s].pc = "bringToFront"
    /\ AdbGoto(s, "startActivity")
    /\ UNCHANGED <<id, payloadVars, electronVars, deviceProxyMapping, tunnelChecks,
                   registration, adbDeactivate>>

\* bringToFront() settles: .catch(logError); the payload is built and the first
\* reverse() called
BringToFrontSettles(s) ==
    /\ adbActivate[s].pc = "bringToFront"
    /\ AdbGoto(s, "reverse")
    /\ UNCHANGED <<id, payloadVars, electronVars, deviceProxyMapping, tunnelChecks,
                   registration, adbDeactivate>>

\* the first deviceClient.reverse() settles: .catch(() => {})
ReverseSettles(s) ==
    /\ adbActivate[s].pc = "reverse"
    /\ AdbGoto(s, "startActivity")
    /\ UNCHANGED <<id, payloadVars, electronVars, deviceProxyMapping, tunnelChecks,
                   registration, adbDeactivate>>

\* `this.deviceProxyMapping[proxyPort] = this.deviceProxyMapping[proxyPort] || []`
WithPort(mapping, proxyPort) ==
    IF proxyPort \in DOMAIN mapping THEN mapping ELSE mapping @@ (proxyPort :> <<>>)

\* variant: the device id is pushed without the includes() test
ShouldRegister_Unchecked(arr, deviceId) == Len(arr) >= 0

\* `if (!this.deviceProxyMapping[proxyPort].includes(options.deviceId))`
ShouldRegister(arr, deviceId) == ~Includes(arr, deviceId)

\* startActivity() settles; on success the pair is registered and, on first
\* registration, the health-check timer of this call is created
StartActivitySettles(s) ==
    /\ adbActivate[s].pc = "startActivity"
    /\ \E ok \in BOOLEAN :
        LET p == adbActivate[s].proxyPort
            d == adbActivate[s].deviceId
            m == WithPort(deviceProxyMapping, p)
        IN  IF ~ok
            THEN /\ AdbGoto(s, "rejected")
                 /\ UNCHANGED <<deviceProxyMapping, tunnelChecks, registration>>
            ELSE /\ AdbGoto(s, "resolved")
                 /\ IF ShouldRegister(m[p], d)
                    THEN /\ deviceProxyMapping' = [m EXCEPT ![p] = Append(@, d)]
                         /\ tunnelChecks' = [tunnelChecks EXCEPT ![s] =
                                [IdleTunnelCheck EXCEPT !.proxyPort = p,
                                                        !.deviceId = d,
                                                        !.scheduled = TRUE]]
                         /\ registration' = [registration EXCEPT ![<<p, d>>] = s]
                    ELSE /\ deviceProxyMapping' = m
                         /\ UNCHANGED <<tunnelChecks, registration>>
    /\ UNCHANGED <<id, payloadVars, electronVars, adbDeactivate>>

\* a closure whose interval is cleared and which has no call pending can never
\* run again: it is garbage
Collect(check) ==
    IF ~check.scheduled /\ check.pending = 0 THEN IdleTunnelCheck ELSE check

\* the interval fires: the callback up to its await, or clearInterval
TunnelCheckTick(t) ==
    /\ tunnelChecks[t].scheduled
    /\ tunnelChecks[t].pending < MaxInFlight
    /\ IF Tracked(tunnelChecks[t].proxyPort, tunnelChecks[t].deviceId)
       THEN tunnelChecks' = [tunnelChecks EXCEPT ![t].pending = @ + 1]
       ELSE tunnelChecks' = [tunnelChecks EXCEPT
                ![t] = Collect([@ EXCEPT !.scheduled = FALSE])]
    /\ UNCHANGED <<id, payloadVars, electronVars, deviceProxyMapping, adbActivate,
                   registration, adbDeactivate>>

\* `if (tunnelConnectFailures >= 5)`
GiveUp(failures) == failures >= TunnelFailureLimit

\* a reverse() call of the health check settles
TunnelCheckSettles(t) ==
    /\ tunnelChecks[t].pending > 0
    /\ \E ok \in BOOLEAN :
        LET p == tunnelChecks[t].proxyPort
            d == tunnelChecks[t].deviceId
            failures == tunnelChecks[t].tunnelConnectFailures + 1
            settled == [tunnelChecks[t] EXCEPT !.pending = @ - 1]
        IN  IF ok
            THEN /\ tunnelChecks' = [tunnelChecks EXCEPT ![t] =
                        Collect([settled EXCEPT !.tunnelConnectFailures = 0])]
                 /\ UNCHANGED <<deviceProxyMapping, registration>>
            ELSE IF GiveUp(failures)
            THEN /\ tunnelChecks' = [tunnelChecks EXCEPT ![t] =
                        Collect([settled EXCEPT !.tunnelConnectFailures = failures,
                                                !.scheduled = FALSE])]
                 /\ deviceProxyMapping' =
                        [deviceProxyMapping EXCEPT ![p] = Without(@, d)]
                 /\ registration' = [registration EXCEPT ![<<p, d>>] = 0]
            ELSE /\ tunnelChecks' = [tunnelChecks EXCEPT ![t] =
                        Collect([settled EXCEPT !.tunnelConnectFailures = failures])]
                 /\ UNCHANGED <<deviceProxyMapping, registration>>
    /\ UNCHANGED <<id, payloadVars, electronVars, adbActivate, adbDeactivate>>

----------------------------------------------------------------------------
(* Device flow: deactivate / deactivateAll *)

\* state of Promise.all over the per-device tasks
AllStatus(subs) ==
    IF \E k \in DOMAIN subs : subs[k] = "failed" THEN "rejected"
    ELSE IF \A k \in DOMAIN subs : subs[k] \in {"none", "done"} THEN "resolved"
    ELSE "pending"

\* variant: a task is started for every known device id, tracked or not
AdbSubsFor_AllDevices(ports) ==
    [k \in Ports \X Devices |-> IF k[1] \in ports THEN "bringToFront" ELSE "none"]

\* the per-device tasks deactivate(port) starts: one per tracked device id,
\* each running up to its first await, bringToFront()
AdbSubsFor(ports) ==
    [k \in Ports \X Devices |->
        IF k[1] \in ports /\ Tracked(k[1], k[2]) THEN "bringToFront" ELSE "none"]

\* every per-device task of the latest call has run to its end
Settled(call) == \A k \in DOMAIN call.subs : call.subs[k] \in {"none", "done", "failed"}

\* the tasks of a call, of which only the outcome remains once all have ended
AdbTasks(subs) ==
    IF \A k \in DOMAIN subs : subs[k] \in {"none", "done", "failed"} THEN NoSubs ELSE subs

\* deactivate(port) is called
AdbDeactivateStart(port) ==
    /\ id = "android-adb"
    /\ Settled(adbDeactivate)
    /\ LET subs == AdbSubsFor({port})
       IN adbDeactivate' =
            [status |-> AllStatus(subs), all |-> FALSE, port |-> port, subs |-> subs]
    /\ UNCHANGED <<id, payloadVars, electronVars, deviceProxyMapping, adbActivate,
                   tunnelChecks, registration>>

\* deactivateAll() is called: deactivate(port) for every key of the mapping
AdbDeactivateAllStart ==
    /\ id = "android-adb"
    /\ Settled(adbDeactivate)
    /\ LET subs == AdbSubsFor(DOMAIN deviceProxyMapping)
       IN adbDeactivate' =
            [status |-> AllStatus(subs), all |-> TRUE, port |-> 0, subs |-> subs]
    /\ UNCHANGED <<id, payloadVars, electronVars, deviceProxyMapping, adbActivate,
                   tunnelChecks, registration>>

\* bringToFront() of one device settles (.catch(logError)); startActivity is sent
AdbDeactivateBringToFrontSettles(k) ==
    /\ adbDeactivate.subs[k] = "bringToFront"
    /\ adbDeactivate' = [adbDeactivate EXCEPT !.subs[k] = "startActivity"]
    /\ UNCHANGED <<id, payloadVars, electronVars, deviceProxyMapping, adbActivate,
                   tunnelChecks, registration>>

\* outcome of the per-device task when startActivity(DEACTIVATE) settles
AdbDeactivateOutcome(ok) == IF ok THEN "done" ELSE "failed"

\* startActivity(DEACTIVATE) of one device settles
AdbDeactivateStartActivitySettles(k) ==
    /\ adbDeactivate.subs[k] = "startActivity"
    /\ \E ok \in BOOLEAN :
        LET subs == [adbDeactivate.subs EXCEPT ![k] = AdbDeactivateOutcome(ok)]
        IN adbDeactivate' = [adbDeactivate EXCEPT
                !.subs = AdbTasks(subs),
                !.status = IF @ = "pending" THEN AllStatus(subs) ELSE @]
    /\ UNCHANGED <<id, payloadVars, electronVars, deviceProxyMapping, adbActivate,
                   tunnelChecks, registration>>

----------------------------------------------------------------------------
(* Process flow: ElectronInterceptor *)

\* `this.debugClients[port]`, read as a list
Handles(port) ==
    IF port \in DOMAIN debugClients THEN debugClients[port] ELSE <<>>

\* isActive(proxyPort)
ElectronIsActive(proxyPort) ==
    /\ proxyPort \in DOMAIN debugClients
    /\ Len(debugClients[proxyPort]) # 0

IdleElectronActivate ==
    [pc |-> "idle", proxyPort |-> 0, retries |-> 0, attempts |-> 0,
     callFrame |-> "none", error |-> "none"]

\* a CDP client: its channel, whether the 'disconnect' handler of activate() is
\* registered, and, in program order, the handler registrations and protocol
\* messages activate() has issued on it
NoClient == [channel |-> "none", onDisconnect |-> FALSE, log |-> <<>>]

\* the client operations of lines 71-78, in program order
AttachLog == <<"on Debugger.paused", "Runtime.runIfWaitingForDebugger", "Runtime.enable">>

Logged(c, entry) == clients' = [clients EXCEPT ![c].log = Append(@, entry)]

NoElectronSubs == [c \in Launches |-> "none"]

IdleElectronDeactivate ==
    [status |-> "idle", all |-> FALSE, port |-> 0, subs |-> NoElectronSubs,
     disconnected |-> {}]

\* the call has settled: its locals are gone, what remains is the outcome
ElectronSettledCall(a, pc, error) ==
    [IdleElectronActivate EXCEPT !.pc = pc, !.proxyPort = a.proxyPort, !.error = error]

\* the call rejects with the given error
ElectronReject(s, error) ==
    electronActivate' = [electronActivate EXCEPT
        ![s] = ElectronSettledCall(@, "rejected", error)]

\* activate() is called: the code up to the first await, getPort()
ElectronActivateStart(s, proxyPort) ==
    /\ id = "electron"
    /\ electronActivate[s].pc = "idle"
    /\ \A r \in Launches : r < s => electronActivate[r].pc # "idle"
    /\ electronActivate' = [electronActivate EXCEPT ![s] =
            [IdleElectronActivate EXCEPT !.pc = "getPort", !.proxyPort = proxyPort]]
    /\ UNCHANGED <<id, payloadVars, adbVars, debugClients, clients,
                   electronDeactivate>>

\* getPort() settles; then spawn() and the first ChromeRemoteInterface() call
GetPortSettles(s) ==
    /\ electronActivate[s].pc = "getPort"
    /\ \E ok \in BOOLEAN :
        IF ok
        THEN electronActivate' = [electronActivate EXCEPT
                ![s].pc = "connect", ![s].retries = InitialRetries, ![s].attempts = 1]
        ELSE ElectronReject(s, "getPort")
    /\ UNCHANGED <<id, payloadVars, adbVars, debugClients, clients,
                   electronDeactivate>>

\* variant: the `retries === 0` test is missing
AttachGivesUp_NoBudgetTest(code, retries) == code # "ECONNREFUSED" /\ retries <= InitialRetries

\* `if (error.code !== 'ECONNREFUSED' || retries === 0) throw error`
AttachGivesUp(code, retries) == code # "ECONNREFUSED" \/ retries = 0

\* the loop condition `!debugClient && retries >= 0`, with no client yet
AttachLoops(retries) == retries >= 0

\* `this.debugClients[proxyPort] = this.debugClients[proxyPort] || []`
WithHandles(handles, proxyPort) ==
    IF proxyPort \in DOMAIN handles THEN handles ELSE handles @@ (proxyPort :> <<>>)

\* ChromeRemoteInterface() settles.  With a client: the handle is pushed, the
\* paused handler registered, runIfWaitingForDebugger() sent and
\* Runtime.enable() called
ConnectSettles(s) ==
    /\ electronActivate[s].pc = "connect"
    /\ \E outcome \in {"client", "ECONNREFUSED", "EOTHER"} :
        LET a == electronActivate[s]
            p == a.proxyPort
        IN  IF outcome = "client"
            THEN /\ electronActivate' = [electronActivate EXCEPT
                        ![s].pc = "Runtime.enable",
                        \* the loop is left: its counters are not read again
                        ![s].retries = 0, ![s].attempts = 0]
                 /\ debugClients' =
                        [WithHandles(debugClients, p) EXCEPT ![p] = Append(@, s)]
                                  /\ clients' = [clients EXCEPT ![s].channel = "open",
                                               ![s].log = AttachLog]
            ELSE /\ IF AttachGivesUp(outcome, a.retries)
                    THEN ElectronReject(s, outcome)
                    ELSE electronActivate' = [electronActivate EXCEPT
                            ![s].pc = "delay", ![s].retries = @ - 1,
                            ![s].error = outcome]
                 /\ UNCHANGED <<debugClients, clients>>
    /\ UNCHANGED <<id, payloadVars, adbVars, electronDeactivate>>

\* delay(500) elapses: the loop condition is evaluated again
AttachDelaySettles(s) ==
    /\ electronActivate[s].pc = "delay"
    /\ IF AttachLoops(electronActivate[s].retries)
       THEN electronActivate' = [electronActivate EXCEPT
                ![s].pc = "connect", ![s].attempts = @ + 1, ![s].error = "none"]
       ELSE ElectronReject(s, "Could not initialize CDP client")
    /\ UNCHANGED <<id, payloadVars, adbVars, debugClients, clients,
                   electronDeactivate>>

\* Runtime.enable() settles; on success Debugger.enable() is called
RuntimeEnableSettles(s) ==
    /\ electronActivate[s].pc = "Runtime.enable"
    /\ \E ok \in BOOLEAN :
        IF ok
        THEN /\ electronActivate' = [electronActivate EXCEPT ![s].pc = "Debugger.enable"]
             /\ Logged(s, "Debugger.enable")
        ELSE /\ ElectronReject(s, "Runtime.enable")
             /\ UNCHANGED clients
    /\ UNCHANGED <<id, payloadVars, adbVars, debugClients, electronDeactivate>>

\* the code after `await callFramePromise`: the two `await this.certData`,
\* then evaluateOnCallFrame() is called
Inject(s, a) ==
    \E certData \in {"resolved", "rejected"} :
        IF certData = "rejected"
        THEN /\ electronActivate' = [electronActivate EXCEPT
                    ![s] = ElectronSettledCall(a, "rejected", "certData")]
             /\ UNCHANGED clients
        ELSE /\ electronActivate' = [electronActivate EXCEPT
                    ![s] = [a EXCEPT !.pc = "evaluateOnCallFrame"]]
             /\ Logged(s, "Debugger.evaluateOnCallFrame")

\* variant: the call goes on to the injection without a call frame
CallFramePending_Never(callFrame) == callFrame \notin {"none", "first"}

\* `await callFramePromise` has to wait: no Debugger.paused notification yet
CallFramePending(callFrame) == callFrame = "none"

\* Debugger.enable() settles; `await callFramePromise` follows
DebuggerEnableSettles(s) ==
    /\ electronActivate[s].pc = "Debugger.enable"
    /\ \E ok \in BOOLEAN :
                IF ~ok
        THEN ElectronReject(s, "Debugger.enable") /\ UNCHANGED clients
        ELSE IF CallFramePending(electronActivate[s].callFrame)
        THEN /\ electronActivate' = [electronActivate EXCEPT ![s].pc = "callFramePromise"]
             /\ UNCHANGED clients
        ELSE Inject(s, electronActivate[s])
    /\ UNCHANGED <<id, payloadVars, adbVars, debugClients, electronDeactivate>>

\* the first Debugger.paused notification of the client: callFramePromise resolves
PausedNotification(s) ==
    /\ clients[s].channel = "open"
    /\ electronActivate[s].pc \in {"Runtime.enable", "Debugger.enable", "callFramePromise"}
    /\ electronActivate[s].callFrame = "none"
    /\ LET a == [electronActivate[s] EXCEPT !.callFrame = "first"]
              IN IF a.pc = "callFramePromise" THEN Inject(s, a)
          ELSE electronActivate' = [electronActivate EXCEPT ![s] = a] /\ UNCHANGED clients
    /\ UNCHANGED <<id, payloadVars, adbVars, debugClients, electronDeactivate>>

\* evaluateOnCallFrame() settles; on success resume() is sent and the
\* 'disconnect' handler registered
EvaluateOnCallFrameSettles(s) ==
    /\ electronActivate[s].pc = "evaluateOnCallFrame"
    /\ \E ok \in BOOLEAN :
        IF ok
        THEN /\ electronActivate' = [electronActivate EXCEPT
                    ![s] = ElectronSettledCall(@, "resolved", "none")]
                          /\ clients' = [clients EXCEPT ![s].onDisconnect = TRUE,
                                           ![s].log = Append(@, "Debugger.resume")]
        ELSE /\ ElectronReject(s, "evaluateOnCallFrame")
             /\ UNCHANGED clients
    /\ UNCHANGED <<id, payloadVars, adbVars, debugClients, electronDeactivate>>

\* state of Promise.all over the per-handle tasks
ElectronAllStatus(subs) ==
    IF \E c \in DOMAIN subs : subs[c] = "failed" THEN "rejected"
    ELSE IF \A c \in DOMAIN subs : subs[c] \in {"none", "done"} THEN "resolved"
    ELSE "pending"

\* the per-handle tasks started by deactivate(port) for each of the ports:
\* nothing when !isActive(port), else one task per handle, each running up to
\* its first await, Runtime.evaluate(SIGTERM)
ElectronSubsFor(ports) ==
    [c \in Launches |->
        IF \E p \in ports : ElectronIsActive(p) /\ Includes(debugClients[p], c)
        THEN "evaluate" ELSE "none"]

ElectronSettled(call) ==
    \A c \in DOMAIN call.subs : call.subs[c] \in {"none", "done", "failed"}

\* the tasks of a call, of which only the outcome remains once all have ended
ElectronTasks(subs) ==
    IF \A c \in DOMAIN subs : subs[c] \in {"none", "done", "failed"}
    THEN NoElectronSubs ELSE subs

\* deactivate(proxyPort) is called
ElectronDeactivateStart(port) ==
    /\ id = "electron"
    /\ ElectronSettled(electronDeactivate)
    /\ LET subs == ElectronSubsFor({port})
       IN electronDeactivate' =
            [status |-> ElectronAllStatus(subs), all |-> FALSE, port |-> port,
             subs |-> subs, disconnected |-> {}]
    /\ UNCHANGED <<id, payloadVars, adbVars, debugClients, clients,
                   electronActivate>>

\* deactivateAll() is called: deactivate(port) for every key of debugClients
ElectronDeactivateAllStart ==
    /\ id = "electron"
    /\ ElectronSettled(electronDeactivate)
    /\ LET subs == ElectronSubsFor(DOMAIN debugClients)
       IN electronDeactivate' =
            [status |-> ElectronAllStatus(subs), all |-> TRUE, port |-> 0,
             subs |-> subs, disconnected |-> {}]
    /\ UNCHANGED <<id, payloadVars, adbVars, debugClients, clients,
                   electronActivate>>

\* the per-handle task after `await debugClient.Runtime.evaluate(SIGTERM)`:
\* on success once('disconnect') is registered and delay(1000) started
AfterShutdownRequest(ok) == IF ok THEN "race" ELSE "failed"

\* Runtime.evaluate(SIGTERM) of one handle settles
ShutdownRequestSettles(c) ==
    /\ electronDeactivate.subs[c] = "evaluate"
    /\ \E ok \in BOOLEAN :
        LET subs == [electronDeactivate.subs EXCEPT ![c] = AfterShutdownRequest(ok)]
        IN electronDeactivate' = [electronDeactivate EXCEPT
                !.subs = ElectronTasks(subs),
                !.status = IF @ = "pending" THEN ElectronAllStatus(subs) ELSE @,
                !.disconnected = IF ok THEN @ ELSE @ \ {c}]
    /\ UNCHANGED <<id, payloadVars, adbVars, debugClients, clients,
                   electronActivate>>

\* delay(1000) wins the race: cleanShutdown is false, process.exit(0) is sent
ShutdownTimeout(c) ==
    /\ electronDeactivate.subs[c] = "race"
    /\ electronDeactivate' = [electronDeactivate EXCEPT !.subs[c] = "forceExit"]
    /\ UNCHANGED <<id, payloadVars, adbVars, debugClients, clients,
                   electronActivate>>

\* Runtime.evaluate(process.exit(0)) settles: .catch(() => {})
ForceExitSettles(c) ==
    /\ electronDeactivate.subs[c] = "forceExit"
    /\ LET subs == [electronDeactivate.subs EXCEPT ![c] = "done"]
       IN electronDeactivate' = [electronDeactivate EXCEPT
                !.subs = ElectronTasks(subs),
                !.status = IF @ = "pending" THEN ElectronAllStatus(subs) ELSE @,
                !.disconnected = @ \ {c}]
    /\ UNCHANGED <<id, payloadVars, adbVars, debugClients, clients,
                   electronActivate>>

\* `_.remove(this.debugClients[proxyPort], c => c === debugClient)`, run by
\* the handler activate() registered, if it did
AfterDisconnect(handles, c) ==
    IF clients[c].onDisconnect
    THEN [p \in DOMAIN handles |->
            IF p = electronActivate[c].proxyPort THEN Without(handles[p], c)
            ELSE handles[p]]
    ELSE handles

\* the channel of a client closes: 'disconnect' is emitted to the handlers
\* registered at that moment
Disconnect(c) ==
    /\ clients[c].channel = "open"
    /\ clients' = [clients EXCEPT ![c].channel = "closed"]
    /\ debugClients' = AfterDisconnect(debugClients, c)
    /\ LET subs == IF electronDeactivate.subs[c] = "race"
                   THEN [electronDeactivate.subs EXCEPT ![c] = "done"]
                   ELSE electronDeactivate.subs
       IN electronDeactivate' = [electronDeactivate EXCEPT
                !.subs = ElectronTasks(subs),
                !.status = IF @ = "pending" THEN ElectronAllStatus(subs) ELSE @,
                !.disconnected =
                    IF electronDeactivate.subs[c] = "evaluate" THEN @ \cup {c} ELSE @]
    /\ UNCHANGED <<id, payloadVars, adbVars, electronActivate>>

----------------------------------------------------------------------------
(* Device flow: the connection payload built by activate() *)

\* interface names, as character sequences (String.prototype.startsWith is
\* computed on them)
InterfaceNames ==
    { <<"e", "t", "h", "0">>,
      <<"d", "o", "c", "k", "e", "r", "0">>,
      <<"b", "r", "-", "1">>,
      <<"v", "e", "t", "h", "1">> }

\* os.NetworkInterfaceInfo values: the fields the filter reads, and the address
NetworkInterfaceInfos ==
    { [address |-> "192.168.1.5", family |-> "IPv4", internal |-> FALSE],
      [address |-> "172.17.0.1", family |-> "IPv4", internal |-> FALSE],
      [address |-> "127.0.0.1", family |-> "IPv4", internal |-> TRUE],
      [address |-> "fe80::1", family |-> "IPv6", internal |-> FALSE] }

\* sequences over S of length at most n
SeqUpTo(S, n) == UNION {[1..k -> S] : k \in 0..n}

\* the values os.networkInterfaces() may have: an object keyed by interface
\* name (so no name occurs twice), enumerated in key order
InterfaceLists ==
    { l \in SeqUpTo([iface : InterfaceNames,
                     addresses : SeqUpTo(NetworkInterfaceInfos, MaxAddresses)],
                    MaxInterfaces) :
        \A i, j \in 1..Len(l) : l[i].iface = l[j].iface => i = j }

\* String.prototype.startsWith
StartsWith(str, prefix) ==
    Len(str) >= Len(prefix) /\ SubSeq(str, 1, Len(prefix)) = prefix

\* variant: the `veth` test is missing
KeepAddress_NoVethTest(a, iface) ==
    /\ ~a.internal
    /\ a.family = "IPv4"
    /\ iface # <<"d", "o", "c", "k", "e", "r", "0">>
    /\ ~StartsWith(iface, <<"b", "r", "-">>)

\* the filter predicate of lines 104-110
KeepAddress(a, iface) ==
    /\ ~a.internal
    /\ a.family = "IPv4"
    /\ iface # <<"d", "o", "c", "k", "e", "r", "0">>
    /\ ~StartsWith(iface, <<"b", "r", "-">>)
    /\ ~StartsWith(iface, <<"v", "e", "t", "h">>)

\* `(addresses || []).filter(...).map(a => a.address)` for one interface
RECURSIVE FilterMap(_, _)
FilterMap(addresses, iface) ==
    IF addresses = <<>> THEN <<>>
    ELSE (IF KeepAddress(Head(addresses), iface)
          THEN <<Head(addresses).address>> ELSE <<>>)
         \o FilterMap(Tail(addresses), iface)

\* `_.flatMap(os.networkInterfaces(), (addresses, iface) => ...)`
RECURSIVE FlatMap(_)
FlatMap(interfaces) ==
    IF interfaces = <<>> THEN <<>>
    ELSE FilterMap(Head(interfaces).addresses, Head(interfaces).iface)
         \o FlatMap(Tail(interfaces))

\* the `addresses` property of setupParams
Addresses(interfaces) == <<"10.0.2.2", "10.0.3.2">> \o FlatMap(interfaces)

NoSetupParams == [computed |-> FALSE, addresses |-> <<>>]

\* activate() evaluates the `addresses` property of the setupParams literal
ComputeAddresses ==
    /\ id = "android-adb"
    /\ ~setupParams.computed
    /\ setupParams' = [computed |-> TRUE, addresses |-> Addresses(networkInterfaces)]
    /\ UNCHANGED <<id, adbVars, electronVars, networkInterfaces, content, intentData>>

\* UTF-16 code units of the strings given to urlSafeBase64(): 'a', '>', '?'
\* and U+00FF
CodeUnits == {97, 62, 63, 255}

Contents == SeqUpTo(CodeUnits, MaxContentLength)

\* the UTF-8 bytes of one code unit below the surrogate range
Utf8(codeUnit) ==
    IF codeUnit < 128 THEN <<codeUnit>>
    ELSE IF codeUnit < 2048
    THEN <<192 + (codeUnit \div 64), 128 + (codeUnit % 64)>>
    ELSE <<224 + (codeUnit \div 4096), 128 + ((codeUnit \div 64) % 64),
           128 + (codeUnit % 64)>>

\* `Buffer.from(content, 'utf8')`
RECURSIVE BufferFrom(_)
BufferFrom(str) ==
    IF str = <<>> THEN <<>> ELSE Utf8(Head(str)) \o BufferFrom(Tail(str))

\* the standard base64 alphabet
Base64Alphabet ==
    <<"A", "B", "C", "D", "E", "F", "G", "H", "I", "J", "K", "L", "M",
       "N", "O", "P", "Q", "R", "S", "T", "U", "V", "W", "X", "Y", "Z",
       "a", "b", "c", "d", "e", "f", "g", "h", "i", "j", "k", "l", "m",
       "n", "o", "p", "q", "r", "s", "t", "u", "v", "w", "x", "y", "z",
       "0", "1", "2", "3", "4", "5", "6", "7", "8", "9", "+", "/">>

\* `.toString('base64')`: three bytes give four characters, '=' pads the end
RECURSIVE ToBase64(_)
ToBase64(bytes) ==
    IF bytes = <<>> THEN <<>>
    ELSE LET n == Len(bytes)
             b1 == bytes[1]
             b2 == IF n >= 2 THEN bytes[2] ELSE 0
             b3 == IF n >= 3 THEN bytes[3] ELSE 0
         IN  << Base64Alphabet[(b1 \div 4) + 1],
                Base64Alphabet[((b1 % 4) * 16 + (b2 \div 16)) + 1],
                IF n >= 2 THEN Base64Alphabet[((b2 % 16) * 4 + (b3 \div 64)) + 1]
                ELSE "=",
                IF n >= 3 THEN Base64Alphabet[(b3 % 64) + 1] ELSE "=" >>
             \o (IF n > 3 THEN ToBase64(SubSeq(bytes, 4, n)) ELSE <<>>)

\* String.prototype.replace with a string pattern of one character: only the
\* first occurrence is replaced
RECURSIVE Replace(_, _, _)
Replace(str, pattern, replacement) ==
    IF str = <<>> THEN <<>>
    ELSE IF Head(str) = pattern THEN <<replacement>> \o Tail(str)
    ELSE <<Head(str)>> \o Replace(Tail(str), pattern, replacement)

\* urlSafeBase64(content)
UrlSafeBase64(str) == Replace(Replace(ToBase64(BufferFrom(str)), "+", "-"), "/", "_")

NoIntentData == [computed |-> FALSE, data |-> <<>>]

\* activate() evaluates urlSafeBase64(...) for the intent URL
EncodeIntentData ==
    /\ id = "android-adb"
    /\ ~intentData.computed
    /\ intentData' = [computed |-> TRUE, data |-> UrlSafeBase64(content)]
    /\ UNCHANGED <<id, adbVars, electronVars, networkInterfaces, setupParams, content>>

----------------------------------------------------------------------------
\* the two interceptors as constructed: empty tables, no call made
Constructed ==
    /\ deviceProxyMapping = <<>>
    /\ adbActivate = [s \in Calls |-> IdleActivate]
    /\ tunnelChecks = [s \in Calls |-> IdleTunnelCheck]
    /\ registration = [k \in Ports \X Devices |-> 0]
    /\ adbDeactivate = IdleDeactivate
    /\ debugClients = <<>>
    /\ clients = [c \in Launches |-> NoClient]
    /\ electronActivate = [s \in Launches |-> IdleElectronActivate]
    /\ electronDeactivate = IdleElectronDeactivate

Init ==
    /\ id \in {"android-adb", "electron"}
    /\ Constructed
    /\ networkInterfaces = <<>>
    /\ setupParams = NoSetupParams
    /\ content = <<>>
    /\ intentData = NoIntentData

Next ==
    \/ \E s \in Calls, p \in Ports, d \in Devices : AdbActivateStart(s, p, d)
    \/ \E s \in Calls : GetRootCommandSettles(s)
    \/ \E s \in Calls : HasCertInstalledSettles(s)
    \/ \E s \in Calls : PushFileSettles(s)
    \/ \E s \in Calls : InjectSystemCertificateSettles(s)
    \/ \E s \in Calls : SetChromeFlagsSettles(s)
    \/ \E s \in Calls : IsInstalledSettles(s)
    \/ \E s \in Calls : StreamLatestApkSettles(s)
    \/ \E s \in Calls : InstallSettles(s)
    \/ \E s \in Calls : ClearAllApksSettles(s)
    \/ \E s \in Calls : DelaySettles(s)
    \/ \E s \in Calls : BringToFrontSettles(s)
    \/ \E s \in Calls : ReverseSettles(s)
    \/ \E s \in Calls : StartActivitySettles(s)
    \/ \E t \in Calls : TunnelCheckTick(t)
    \/ \E t \in Calls : TunnelCheckSettles(t)
    \/ \E p \in Ports : AdbDeactivateStart(p)
    \/ AdbDeactivateAllStart
    \/ \E k \in Ports \X Devices : AdbDeactivateBringToFrontSettles(k)
    \/ \E k \in Ports \X Devices : AdbDeactivateStartActivitySettles(k)
    \/ \E s \in Launches, p \in Ports : ElectronActivateStart(s, p)
    \/ \E s \in Launches : GetPortSettles(s)
    \/ \E s \in Launches : ConnectSettles(s)
    \/ \E s \in Launches : AttachDelaySettles(s)
    \/ \E s \in Launches : RuntimeEnableSettles(s)
    \/ \E s \in Launches : DebuggerEnableSettles(s)
    \/ \E s \in Launches : PausedNotification(s)
    \/ \E s \in Launches : EvaluateOnCallFrameSettles(s)
    \/ \E p \in Ports : ElectronDeactivateStart(p)
    \/ ElectronDeactivateAllStart
    \/ \E c \in Launches : ShutdownRequestSettles(c)
    \/ \E c \in Launches : ShutdownTimeout(c)
    \/ \E c \in Launches : ForceExitSettles(c)
    \/ \E c \in Launches : Disconnect(c)

Spec == Init /\ [][Next]_vars

----------------------------------------------------------------------------
(* The payload computations on their own, over every input of the bounds *)

AddressesInit ==
    /\ id = "android-adb"
    /\ Constructed
    /\ networkInterfaces \in InterfaceLists
    /\ setupParams = NoSetupParams
    /\ content = <<>>
    /\ intentData = NoIntentData

AddressesNext == ComputeAddresses

AddressesSpec == AddressesInit /\ [][AddressesNext]_vars

EncodingInit ==
    /\ id = "android-adb"
    /\ Constructed
    /\ networkInterfaces = <<>>
    /\ setupParams = NoSetupParams
    /\ content \in Contents
    /\ intentData = NoIntentData

EncodingNext == EncodeIntentData

EncodingSpec == EncodingInit /\ [][EncodingNext]_vars

----------------------------------------------------------------------------
(* Properties *)

\* the ports a deactivate()/deactivateAll() call of the device flow covers
AdbCovered(call) == IF call.all THEN DOMAIN deviceProxyMapping ELSE {call.port}

\* the ports a deactivate()/deactivateAll() call of the process flow covers
ElectronCovered(call) == IF call.all THEN DOMAIN debugClients ELSE {call.port}

\* C1: device flow: once activate(P,{T}) has resolved and T is still tracked
\* under P, isActive(P) is true.
C1_ActiveAfterActivate ==
    \A s \in Calls :
        (adbActivate[s].pc = "resolved"
            /\ Tracked(adbActivate[s].proxyPort, adbActivate[s].deviceId))
        => AdbIsActive(adbActivate[s].proxyPort)

\* C2: device flow: every target id appears at most once in the session list
\* of every proxy port, in every reachable state.
C2_NoDuplicateTarget ==
    \A p \in Ports, d \in Devices : Occurrences(DeviceIds(p), d) <= 1

\* two activate(P,{T}) calls with the same arguments have both resolved and T
\* is tracked under P
C2_Witness ==
    \E s, r \in Calls :
        /\ s # r
        /\ adbActivate[s].pc = "resolved" /\ adbActivate[r].pc = "resolved"
        /\ adbActivate[s].proxyPort = adbActivate[r].proxyPort
        /\ adbActivate[s].deviceId = adbActivate[r].deviceId
        /\ Tracked(adbActivate[s].proxyPort, adbActivate[s].deviceId)

\* C3: device flow health check: a tracked pair (P,T) leaves the session table
\* only in the step in which the failure counter of its registration reaches 5
\* consecutive failures, and a successful re-establish resets that counter to 0.
C3_DroppedExactlyAtFiveFailures ==
    [][\A p \in Ports, d \in Devices :
        LET t == registration[<<p, d>>]
        IN  /\ (Tracked(p, d) /\ ~Tracked(p, d)') =>
                  /\ t \in Calls
                  /\ tunnelChecks[t].pending > 0
                  /\ tunnelChecks'[t] # tunnelChecks[t]
                  /\ tunnelChecks[t].tunnelConnectFailures + 1 = TunnelFailureLimit
            /\ (t \in Calls /\ Tracked(p, d)'
                    /\ tunnelChecks'[t].tunnelConnectFailures
                            < tunnelChecks[t].tunnelConnectFailures) =>
                  tunnelChecks'[t].tunnelConnectFailures = 0
      ]_vars

\* C4 (as amended): process flow attach retry: activate makes at most 11
\* connection attempts; it waits and retries only after a connection-refused
\* failure; when the 11th attempt is refused it rejects with that
\* connection-refused error; any other error rejects at once; the "Could not
\* initialize CDP client" error is never the outcome of the retry loop.
C4_AttachRetry ==
    [][\A s \in Launches :
        LET a == electronActivate[s]
            b == electronActivate'[s]
        IN  /\ b.pc = "connect" => b.attempts <= InitialRetries + 1
            /\ b.pc = "delay" => b.error = "ECONNREFUSED"
            /\ (a.pc = "connect" /\ b.pc = "rejected") =>
                  \/ b.error = "EOTHER"
                  \/ b.error = "ECONNREFUSED" /\ a.attempts = InitialRetries + 1
            /\ (a.pc = "delay" /\ b.pc = "rejected") => FALSE
      ]_vars

\* all 11 attempts were refused and the call has rejected
C4_Witness ==
    \E s \in Launches :
        electronActivate[s].pc = "rejected" /\ electronActivate[s].error = "ECONNREFUSED"

\* C4: process flow attach retry: at most 11 attempts; when all 11 are refused
\* the call fails with the "could not initialize" error; any other error
\* rejects at once with no further attempt.
C4_Original ==
    [][\A s \in Launches :
        LET a == electronActivate[s]
            b == electronActivate'[s]
        IN  /\ b.pc = "connect" => b.attempts <= InitialRetries + 1
            /\ b.pc = "delay" => b.error = "ECONNREFUSED"
            /\ (a.pc \in {"connect", "delay"} /\ b.pc = "rejected") =>
                  \/ b.error = "EOTHER"
                  \/ b.error = "Could not initialize CDP client"
      ]_vars

\* C5: process flow deactivate: for every tracked handle, the per-handle task
\* ends without sending the forced-exit expression only when the channel has
\* disconnected, and the forced-exit expression is not sent to a handle whose
\* channel disconnected after the shutdown request was issued and before the
\* timeout, also when the disconnect came before the request's reply.
C5_ForceExitIffNoDisconnect ==
    [][\A c \in Launches :
        /\ (electronDeactivate.subs[c] \in {"evaluate", "race"}
                /\ electronDeactivate'.subs[c] \in {"none", "done", "failed"}) =>
              clients'[c].channel = "closed"
        /\ electronDeactivate'.subs[c] = "forceExit" =>
              c \notin electronDeactivate'.disconnected
      ]_vars

\* C6: both flows: deactivate(P) and deactivateAll() never reject.
C6_DeactivateNeverRejects ==
    /\ adbDeactivate.status # "rejected"
    /\ electronDeactivate.status # "rejected"

\* C7: both flows: when activate rejects, nothing of the failed attempt is
\* tracked: no debug handle of the call is in a handle list, and the call has
\* registered no target id.
C7_NoPartialStateAfterReject ==
    /\ \A s \in Launches :
          electronActivate[s].pc = "rejected" =>
              ~Includes(Handles(electronActivate[s].proxyPort), s)
    /\ \A s \in Calls :
          adbActivate[s].pc = "rejected" =>
              registration[<<adbActivate[s].proxyPort, adbActivate[s].deviceId>>] # s

\* C8: both flows: in the step in which deactivate(P) resolves nothing is
\* tracked under P any more, and in the step in which deactivateAll() resolves
\* nothing is tracked under any port.
C8_NothingTrackedAfterDeactivate ==
    [][/\ (adbDeactivate.status = "pending" /\ adbDeactivate'.status = "resolved") =>
              \A p \in Ports :
                  (adbDeactivate.all \/ p = adbDeactivate.port) => DeviceIds(p)' = <<>>
       /\ (electronDeactivate.status = "pending"
                /\ electronDeactivate'.status = "resolved") =>
              \A p \in Ports :
                  (electronDeactivate.all \/ p = electronDeactivate.port) =>
                      ~ElectronIsActive(p)'
      ]_vars

\* C9: both flows: a deactivate(P) call for a port with nothing tracked, and a
\* deactivateAll() call on a table with nothing tracked, resolves at once,
\* starts no per-target task (so makes no collaborator call) and leaves the
\* session/handle table unchanged.
C9_DeactivateIdleIsNoOp ==
    [][/\ (/\ Settled(adbDeactivate)
           /\ adbDeactivate' # adbDeactivate
           /\ \A p \in AdbCovered(adbDeactivate') : DeviceIds(p) = <<>>) =>
              /\ adbDeactivate'.status = "resolved"
              /\ adbDeactivate'.subs = NoSubs
              /\ deviceProxyMapping' = deviceProxyMapping
       /\ (/\ ElectronSettled(electronDeactivate)
           /\ electronDeactivate' # electronDeactivate
           /\ \A p \in ElectronCovered(electronDeactivate') : Handles(p) = <<>>) =>
              /\ electronDeactivate'.status = "resolved"
              /\ electronDeactivate'.subs = NoElectronSubs
              /\ debugClients' = debugClients
      ]_vars

\* a deactivate call has resolved although no activate call ever resolved and
\* nothing is tracked
C9_Witness ==
    \/ /\ adbDeactivate.status = "resolved"
       /\ \A s \in Calls : adbActivate[s].pc # "resolved"
       /\ \A p \in Ports : DeviceIds(p) = <<>>
    \/ /\ electronDeactivate.status = "resolved"
       /\ \A s \in Launches : electronActivate[s].pc \in {"idle", "getPort"}
       /\ \A p \in Ports : Handles(p) = <<>>

\* C10: device flow cert injection: the certificate file push and the system
\* certificate install are performed only when hasCertInstalled() reported the
\* certificate as not installed; when it reported it installed, the call goes
\* straight on to the Chrome flags.
C10_NoRedundantCertPush ==
    \A s \in Calls :
        /\ adbActivate[s].pc \in {"pushFile", "injectSystemCertificate"} =>
              adbActivate[s].certInstalled = "no"
        /\ adbActivate[s].certInstalled = "yes" => adbActivate[s].pc = "setChromeFlags"

\* elevated access is available and the target reported the certificate installed
C10_Witness ==
    \E s \in Calls :
        adbActivate[s].certInstalled = "yes" /\ adbActivate[s].pc = "setChromeFlags"

\* the name of a container-bridge interface: docker0, br-*, veth*
BridgeName(name) ==
    \/ name = <<"d", "o", "c", "k", "e", "r", "0">>
    \/ Len(name) >= 3 /\ name[1] = "b" /\ name[2] = "r" /\ name[3] = "-"
    \/ Len(name) >= 4 /\ name[1] = "v" /\ name[2] = "e" /\ name[3] = "t"
                     /\ name[4] = "h"

\* the positions <<interface, entry>> of the entries the address list is to hold
Qualifying ==
    UNION { { <<i, j>> : j \in { k \in 1..Len(networkInterfaces[i].addresses) :
                                  LET a == networkInterfaces[i].addresses[k]
                                  IN  /\ ~a.internal
                                      /\ a.family = "IPv4"
                                      /\ ~BridgeName(networkInterfaces[i].iface) } } :
            i \in 1..Len(networkInterfaces) }

\* the qualifying positions before q in interface order
EarlierQualifying(q) ==
    { r \in Qualifying : r[1] < q[1] \/ (r[1] = q[1] /\ r[2] < q[2]) }

C12_HealthCheckCancelled ==
    [][/\ \A p \in Ports, d \in Devices :
            (Tracked(p, d) /\ ~Tracked(p, d)') =>
                \A t \in Calls :
                    (tunnelChecks[t].proxyPort = p /\ tunnelChecks[t].deviceId = d) =>
                        ~tunnelChecks'[t].scheduled
       /\ (adbDeactivate.status = "pending" /\ adbDeactivate'.status = "resolved") =>
            \A t \in Calls :
                (adbDeactivate.all \/ tunnelChecks[t].proxyPort = adbDeactivate.port)' =>
                    ~(/\ tunnelChecks[t].scheduled
                      /\ Tracked(tunnelChecks[t].proxyPort, tunnelChecks[t].deviceId))'
      ]_vars

\* C13: process flow: a debug handle whose channel has disconnected is in no
\* port's handle list, at whatever point of activate the disconnect came; so
\* isActive(P) is false once every channel attached for P has disconnected.
C13_DisconnectedHandleRemoved ==
    \A c \in Launches :
        clients[c].channel = "closed" =>
            /\ \A p \in Ports : ~Includes(Handles(p), c)
            /\ (\A b \in Launches : clients[b].channel # "open") =>
                  \A p \in Ports : ~ElectronIsActive(p)

\* the task turns that advance activate() call s of the process flow
ElectronActivateStep(s) ==
    \/ GetPortSettles(s)
    \/ ConnectSettles(s)
    \/ AttachDelaySettles(s)
    \/ RuntimeEnableSettles(s)
    \/ DebuggerEnableSettles(s)
    \/ PausedNotification(s)
    \/ EvaluateOnCallFrameSettles(s)

\* C14: process flow: a started activate call that has neither resolved nor
\* rejected can always still advance, whatever the target did after the
\* channel was attached: it is never left waiting for something that can no
\* longer happen.
C14_ActivateCanSettle ==
    \A s \in Launches :
        electronActivate[s].pc \notin {"idle", "resolved", "rejected"} =>
            ENABLED ElectronActivateStep(s)

\* the protocol messages that enable protocols, release the target, inject and resume
ProtocolMessages ==
    {"Runtime.runIfWaitingForDebugger", "Runtime.enable", "Debugger.enable",
     "Debugger.evaluateOnCallFrame", "Debugger.resume"}

\* C15: process flow ordering within activate: the pause-notification handler
\* is registered before any protocol message is sent; the injection expression
\* is under evaluation only with the call frame of the first pause
\* notification; and resume has been sent only after the injection evaluate,
\* in a call that got past it successfully.
C15_ActivateOrdering ==
    \A c \in Launches :
        LET log == clients[c].log
            a == electronActivate[c]
        IN  /\ \A i \in 1..Len(log) :
                  log[i] \in ProtocolMessages =>
                      \E j \in 1..(i - 1) : log[j] = "on Debugger.paused"
            /\ a.pc = "evaluateOnCallFrame" =>
                  a.callFrame = "first" /\ ~Includes(log, "Debugger.resume")
            /\ \A i \in 1..Len(log) :
                  log[i] = "Debugger.resume" =>
                      /\ a.pc = "resolved"
                      /\ \E j \in 1..(i - 1) : log[j] = "Debugger.evaluateOnCallFrame"

\* a call has gone through every step and resolved: the handler, the enabling
\* messages, the injection and the resume are all on record
C15_Witness ==
    \E c \in Launches :
        /\ electronActivate[c].pc = "resolved"
        /\ Includes(clients[c].log, "Debugger.resume")
        /\ Len(clients[c].log) = 6

\* the steps of the device flow's activate(), numbered as documented: trust
\* anchor, app check/install, foreground, activation signal, reverse tunnel
DocumentedStage ==
    [idle |-> 0,
     getRootCommand |-> 1, hasCertInstalled |-> 1, pushFile |-> 1,
     injectSystemCertificate |-> 1, setChromeFlags |-> 1,
     isInstalled |-> 2, streamLatestApk |-> 2, install |-> 2, clearAllApks |-> 2,
     delay |-> 2,
     bringToFront |-> 3,
     startActivity |-> 4,
     reverse |-> 5,
     resolved |-> 6]

\* the same steps with the reverse tunnel before the activation signal
TunnelFirstStage ==
    [DocumentedStage EXCEPT !.reverse = 4, !.startActivity = 5]

\* every step of a call stays in its stage or enters the next one, unless the
\* call rejects, and the pair is registered by a call only in the step that
\* takes it from the last stage to resolved
InSequence(stage) ==
    \A s \in Calls :
        LET a == adbActivate[s]
            b == adbActivate'[s]
            k == <<b.proxyPort, b.deviceId>>
        IN  /\ b.pc # "rejected" =>
                  \/ stage[b.pc] = stage[a.pc]
                  \/ stage[b.pc] = stage[a.pc] + 1
            /\ (b.pc = "resolved" /\ registration'[k] = s /\ registration[k] # s) =>
                  stage[a.pc] + 1 = stage["resolved"]

\* C16 (as amended): device flow ordering within activate: trust-anchor
\* injection, then app-presence check/install, then bring-to-foreground, then
\* reverse-tunnel establishment, then the activation signal, then session
\* registration; the pair is registered only after every earlier step finished.
C16_TunnelBeforeSignal == [][InSequence(TunnelFirstStage)]_vars

\* a call has gone through the sequence and registered its pair
C16_Witness ==
    \E s \in Calls :
        /\ adbActivate[s].pc = "resolved"
        /\ registration[<<adbActivate[s].proxyPort, adbActivate[s].deviceId>>] = s
        /\ Tracked(adbActivate[s].proxyPort, adbActivate[s].deviceId)

\* C16: device flow ordering within activate: trust-anchor injection, then
\* app-presence check/install, then bring-to-foreground, then the activation
\* signal, then reverse-tunnel establishment, then session registration.
C16_DocumentedSequence == [][InSequence(DocumentedStage)]_vars

\* the part of the install retry the claim and its amendment agree on: the
\* reset is entered only from a failed first attempt (fetching the package or
\* installing it); a failed first attempt never rejects by itself; the second
\* attempt either succeeds and the call goes on, or fails and the call rejects
\* in that step, with no further reset or attempt; and a call rejecting here
\* registers nothing
InstallRetrySteps(a, b) ==
    /\ (a.pc # "clearAllApks" /\ b.pc = "clearAllApks") =>
          a.pc \in {"streamLatestApk", "install"} /\ a.installTry = 1
    /\ (a.pc = "streamLatestApk" /\ a.installTry = 1) =>
          \/ b.pc = "install" /\ b.installTry = 1
          \/ b.pc = "clearAllApks"
    /\ (a.pc = "install" /\ a.installTry = 1) => b.pc \in {"delay", "clearAllApks"}
    /\ (a.pc = "streamLatestApk" /\ a.installTry = 2) =>
          \/ b.pc = "install" /\ b.installTry = 2
          \/ b.pc = "rejected"
    /\ (a.pc = "install" /\ a.installTry = 2) => b.pc \in {"delay", "rejected"}
    /\ (a.pc \in {"streamLatestApk", "install", "clearAllApks"} /\ b.pc = "rejected") =>
          /\ deviceProxyMapping' = deviceProxyMapping
          /\ registration' = registration

\* C17 (as amended): device flow install retry: when the app is missing and the
\* first install attempt fails, activate resets the install artifacts once; if
\* the reset itself fails activate rejects with no second attempt; otherwise it
\* attempts install exactly once more: on success activation continues, on
\* failure activate rejects in that step, with no third attempt and without
\* registering the pair.
C17_InstallRetry ==
    [][\A s \in Calls :
        LET a == adbActivate[s]
            b == adbActivate'[s]
        IN  a # b =>
              /\ InstallRetrySteps(a, b)
              /\ a.pc = "clearAllApks" =>
                    \/ b.pc = "streamLatestApk" /\ b.installTry = 2
                    \/ b.pc = "rejected"
      ]_vars

\* the second install attempt has failed and the call has rejected, its pair
\* not registered
C17_Witness ==
    \E s \in Calls :
        /\ adbActivate[s].pc = "rejected"
        /\ adbActivate[s].installTry = 2
        /\ ~Tracked(adbActivate[s].proxyPort, adbActivate[s].deviceId)

\* C17: device flow install retry: when the app is missing and the first
\* install fails, activate resets the install artifacts once and attempts
\* install exactly one more time; on success activation continues, on failure
\* activate rejects, with no third attempt and without registering the pair.
C17_Original ==
    [][\A s \in Calls :
        LET a == adbActivate[s]
            b == adbActivate'[s]
        IN  a # b =>
              /\ InstallRetrySteps(a, b)
              /\ a.pc = "clearAllApks" =>
                    b.pc = "streamLatestApk" /\ b.installTry = 2
      ]_vars

\* the awaits of the best-effort steps: the trust-anchor injection
\* (injectSystemCertIfPossible), bring-to-foreground, the first reverse()
BestEffortSteps ==
    {"getRootCommand", "hasCertInstalled", "pushFile", "injectSystemCertificate",
     "setChromeFlags", "bringToFront", "reverse"}

\* C18: device flow best-effort steps: no outcome of a step of the trust-anchor
\* injection (elevated access, certificate parsing, installed check, push,
\* install, Chrome flags), of bring-to-foreground or of the initial reverse
\* tunnel makes activate reject.
C18_BestEffortNeverRejects ==
    [][\A s \in Calls :
        adbActivate[s].pc \in BestEffortSteps => adbActivate'[s].pc # "rejected"
      ]_vars

\* the health-check timers of the pair (p,d) whose interval is not cleared
LiveTimers(p, d) ==
    { t \in Calls : /\ tunnelChecks[t].scheduled
                    /\ tunnelChecks[t].proxyPort = p
                    /\ tunnelChecks[t].deviceId = d }

\* C20: device flow: a reverse() call of a health-check closure that does not
\* belong to the current registration of its pair leaves the session table as
\* it is when it settles, and a tracked pair has at most one live timer.
C20_StaleCallbackHarmless ==
    [][/\ \A t \in Calls :
            (/\ tunnelChecks[t].pending > 0
             /\ tunnelChecks'[t] # tunnelChecks[t]
             /\ registration[<<tunnelChecks[t].proxyPort, tunnelChecks[t].deviceId>>] # t)
            => deviceProxyMapping' = deviceProxyMapping
       /\ \A p \in Ports, d \in Devices :
            Tracked(p, d)' => Cardinality(LiveTimers(p, d))' <= 1
      ]_vars

====
